---- MODULE Spec2Model ----
(***************************************************************************)
(* Lowering of np.dot / np.matmul / np.sum / np.prod / np.argmax /         *)
(* np.argmin / np.argsort / np.cov to dpNP backend calls                   *)
(* (numba/dppl/experimental_numpy_lowering_overload.py).                   *)
(*                                                                         *)
(* One behaviour is one call site: the lowering function runs statement by *)
(* statement (phase "Lowering"), appending the instructions it emits to    *)
(* ir; when it returns (phase "Compiled") the emitted instructions are     *)
(* executed once on the operand arrays of the call (phase "Running").      *)
(* A Python exception during lowering, or a runtime exception propagated   *)
(* by an internally compiled function, ends the behaviour in "Errored".    *)
(***************************************************************************)
EXTENDS Integers, Sequences, FiniteSets, TLC

\* ---------------------------------------------------------------- bounds
\* Largest extent of one array dimension of an operand.
MaxDim == 2

\* ---------------------------------------------------------------- inputs
Ops == {"dot", "matmul", "sum", "prod", "argmax", "argmin", "argsort", "cov"}
BinaryOps == {"dot", "matmul"}
Reductions == {"sum", "prod", "argmax", "argmin"}
\* ranks 1 and 2 are the supported ones, 3 stands for every other rank
Ranks == {1, 2, 3}
\* numba layout codes: C and F are contiguous, A is "any" (strided)
Layouts == {"C", "F", "A"}
DTypes == {"int32", "float64"}
ReturnDTypes == {"int32", "int64"}

ArrayTypes(dts) == [ndim : Ranks, layout : Layouts, dtype : dts]

Signatures(f) ==
    IF f \in BinaryOps
    THEN {[args |-> <<a, b>>, return_type |-> "float64"] :
              a \in ArrayTypes({"float64"}), b \in ArrayTypes({"float64"})}
    ELSE {[args |-> <<a>>, return_type |-> r] :
              a \in ArrayTypes(DTypes), r \in ReturnDTypes}

\* extents of the operand arrays of the call; binary operands are non-empty
Dims(f) == IF f \in BinaryOps THEN 1..MaxDim ELSE 0..MaxDim
\* the largest C int (check_c_int)
_maxint == 2147483647
\* intp values are 64 bits wide: a length is held as two limbs <<h, l>>,
\* standing for h * 2^31 + l with l in 0.._maxint
Gt(x, y) == x[1] > y[1] \/ (x[1] = y[1] /\ x[2] > y[2])
\* the vectors of a vector-vector dot can be longer than a C int holds
Long(f, s) == f = "dot" /\ s.args[1].ndim = 1 /\ s.args[2].ndim = 1
LowLimbs(f, s) == IF Long(f, s) THEN Dims(f) \cup {0, _maxint} ELSE Dims(f)
HighLimbs(f, s) == IF Long(f, s) THEN {0, 1} ELSE {0}
ShapesOf(f, s) ==
    IF Len(s.args) = 2
    THEN {<<x, y>> : x \in [1..s.args[1].ndim -> LowLimbs(f, s)],
                     y \in [1..s.args[2].ndim -> LowLimbs(f, s)]}
    ELSE {<<x>> : x \in [1..s.args[1].ndim -> Dims(f)]}

VARIABLES
    fn,        \* the operation of the call site
    sig0,      \* the signature the lowering was entered with
    shape,     \* shape[i]: runtime shape of operand i
    hi,        \* hi[i]: the multiples of 2^31 in the length of operand i
    dpnp_ok,   \* the dpnp_glue module can be imported
    sym_ok,    \* the backend has a symbol for the requested key
    phase,     \* Lowering, Compiled, Running, Done, Errored
    err,       \* the exception that ended the behaviour, "none" otherwise
    code,      \* statements of the lowering function still to run
    env,       \* local names of the running lowering function -> value
    sig, args, \* the (sig, args) pair in scope (rebound by the with)
    copies,    \* make_contiguous: the copies list
    ir,        \* instructions emitted to the builder so far
    rpc,       \* index into ir of the next instruction to execute
    trace,     \* runtime events in execution order
    resolved,  \* the keys looked up in the backend while lowering, in order
    mem,       \* device runtime: buffer -> the bytes it holds
    mem0,      \* the memory before the first copy
    count,     \* the byte size handed to copy_usm
    calls,     \* the native DPPLQueue_Memcpy calls made, in order
    jargs,     \* ocl.jit: the arguments of the call
    jpc,       \* ocl.jit: start, returned, raised
    jres,      \* ocl.jit: the value the call returned
    jerr,      \* ocl.jit: the exception the call raised, "none" otherwise
    jlog,      \* ocl.jit: the calls made into the compiler, in order
    made       \* ocl.jit: what the applications of the decorator returned

vars == <<fn, sig0, shape, hi, dpnp_ok, sym_ok, phase, err, code, env, sig, args,
          copies, ir, rpc, trace, resolved, mem, mem0, count, calls,
          jargs, jpc, jres, jerr, jlog, made>>
\* the state of the ocl.jit decorator, which no lowering touches
decorator == <<jargs, jpc, jres, jerr, jlog, made>>
\* the state of the device memory, which no lowering touches
memory == <<mem, mem0, count, calls>>
\* what a lowering never changes
inputs == <<fn, sig0, shape, hi, dpnp_ok, sym_ok, memory, decorator>>
\* the state of the lowering of a call site
lowering == <<fn, sig0, shape, hi, dpnp_ok, sym_ok, phase, err, code, env,
              sig, args, copies, ir, rpc, trace, resolved>>

\* ------------------------------------------------------- python helpers
RECURSIVE Prod(_)
Prod(s) == IF s = <<>> THEN 1 ELSE Head(s) * Prod(Tail(s))

\* Python values met in the shape checks: ints and tuples
PyInt(n) == [t |-> "int", v |-> <<n>>]
PyTuple(s) == [t |-> "tuple", v |-> s]
\* Python's != : values of different types are never equal
PyNe(x, y) == IF x.t = y.t THEN x.v # y.v ELSE TRUE

\* ------------------------------------------------- expressions (python)
N(n) == [x |-> "name", n |-> n]
Arg(i) == [x |-> "arg", i |-> i]          \* make_array(ty)(.., args[i-1])
ArrayOf(n) == [x |-> "array_of", n |-> n] \* make_array(return_type)(.., n)
Data(n) == [x |-> "data", n |-> n]        \* n.data, cast to void*
Cast(n) == [x |-> "bitcast", n |-> n]     \* builder.bitcast(n, ll_void_p)
Nitems(n) == [x |-> "nitems", n |-> n]    \* n.nitems
Const(v) == [x |-> "const", v |-> v]      \* context.get_constant(int64, v)
SizeOf(w) == [x |-> "sizeof", of |-> w]   \* get_constant(intp, get_abi_sizeof(..))
Alloca(n) == [x |-> "alloca", slot |-> n] \* cgutils.alloca_once
Load(n) == [x |-> "load", n |-> n]        \* builder.load(n)

Reads(e) == IF e.x \in {"const", "arg", "sizeof", "alloca"} THEN {} ELSE {e.n}

\* context.get_abi_sizeof(context.get_value_type(ty)) for the type named by
\* w in a lowering function whose signature is s: 4 or 8 bytes for a scalar
\* type; an array type is the array structure (meminfo, parent, nitems,
\* itemsize, data, shape[ndim], strides[ndim], each 8 bytes wide)
ScalarSize(d) == IF d \in {"int32", "float32"} THEN 4 ELSE 8
ArrayStructSize(ty) == 40 + 16 * ty.ndim
get_abi_sizeof(w, s) ==
    CASE w = "aty" -> ArrayStructSize(s.args[1])
      [] w = "bty" -> ArrayStructSize(s.args[2])
      [] w = "aty.dtype" -> ScalarSize(s.args[1].dtype)
      [] w = "return_type" -> ScalarSize(s.return_type)

\* ------------------------------------------------------ values (llvm)
\* every value carries its llvm type in field ll
IsContiguous(layout) == layout \in {"C", "F"}

Eval(e, en, s, a) ==
    CASE e.x = "name" -> en[e.n]
      [] e.x = "arg" -> [p |-> "array", val |-> a[e.i],
                         layout |-> s.args[e.i].layout,
                         ndim |-> s.args[e.i].ndim, ll |-> "struct"]
      [] e.x = "array_of" -> [p |-> "array", val |-> [kind |-> "res", i |-> 0],
                              layout |-> "C", ndim |-> 0, ll |-> "struct"]
      [] e.x = "data" -> [p |-> "data", val |-> en[e.n].val,
                          layout |-> en[e.n].layout, ll |-> "i8*"]
      [] e.x = "bitcast" -> [en[e.n] EXCEPT !.ll = "i8*"]
      [] e.x = "nitems" -> [p |-> "nitems", val |-> en[e.n].val, ll |-> "i64"]
      [] e.x = "const" -> [p |-> "const", v |-> e.v, ll |-> "i64"]
      [] e.x = "sizeof" -> [p |-> "const", v |-> get_abi_sizeof(e.of, s),
                            ll |-> "i64"]
      [] e.x = "alloca" -> [p |-> "slot", name |-> e.slot, ll |-> "i64*"]
      [] e.x = "load" -> [p |-> "load", slot |-> e.n, ll |-> "value"]

Bind(en, n, v) == [x \in DOMAIN en \cup {n} |-> IF x = n THEN v ELSE en[x]]

\* ---------------------------------------------- statements (python)
EnsureDpnp(name) == [k |-> "ensure_dpnp", name |-> name]
WithMakeContiguous == [k |-> "make_contiguous"]
ExitMakeContiguous == [k |-> "make_contiguous_exit"]
Dispatch == [k |-> "dispatch"]
NdimsCheck == [k |-> "ndims_check"]
Let(b, e) == [k |-> "let", binds |-> b, e |-> e]
Unpack(of, names) == [k |-> "unpack_tuple", of |-> of, binds |-> names]
CompileInternal(f, fargs, b) ==
    [k |-> "compile_internal", f |-> f, fargs |-> fargs, binds |-> b]
GetSyclQueue(b) == [k |-> "get_sycl_queue", binds |-> b]
TotalSize(b, w, of) ==
    [k |-> "get_total_size_of_array", binds |-> b, ty |-> w, of |-> of]
AllocateUsm(b, size, q) ==
    [k |-> "allocate_usm", binds |-> b, size |-> size, queue |-> q]
CopyUsm(src, dst, size, q) ==
    [k |-> "copy_usm", src |-> src, dst |-> dst, size |-> size, queue |-> q]
FreeUsm(buf, q) == [k |-> "free_usm", buf |-> buf, queue |-> q]
Store(v, slot) == [k |-> "store", v |-> v, slot |-> slot]
CallDpnp(name, tn, params, tys) ==
    [k |-> "call_dpnp", fn_name |-> name, type_names |-> tn,
     params |-> params, param_tys |-> tys]
IfNdim(then2, then1) == [k |-> "if_ndim", then2 |-> then2, then1 |-> then1]
Return(e) == [k |-> "return", e |-> e]

SeqReads(es) == UNION {Reads(es[i]) : i \in DOMAIN es}

\* the local (or global) names a statement evaluates
StmtReads(st) ==
    CASE st.k = "let" -> Reads(st.e)
      [] st.k = "unpack_tuple" -> {st.of}
      [] st.k = "compile_internal" -> SeqReads(st.fargs)
      [] st.k = "get_total_size_of_array" -> {st.of}
      [] st.k = "allocate_usm" -> Reads(st.size) \cup {st.queue}
      [] st.k = "copy_usm" ->
             Reads(st.src) \cup Reads(st.dst) \cup Reads(st.size) \cup {st.queue}
      [] st.k = "free_usm" -> Reads(st.buf) \cup {st.queue}
      [] st.k = "store" -> Reads(st.v) \cup {st.slot}
      [] st.k = "call_dpnp" -> SeqReads(st.params)
      [] st.k = "return" -> Reads(st.e)
      [] OTHER -> {}

ll_void_p == "i8*"
ll_int64 == "i64"

\* ------------------------------------------------ lowering functions
\* Each lowering function is the sequence of its statements, in source
\* order; names are the source's local names.

dot_2_vv ==
    << Let("a", Arg(1)), Let("b", Arg(2)),
       Let("out", Alloca("out")),
       Unpack("a", <<"size">>),
       CompileInternal("dot_2_vv.check_args", <<Arg(1), Arg(2)>>, ""),
       CompileInternal("check_c_int.impl", <<N("size")>>, ""),
       CallDpnp("dpnp_dot", <<"a.dtype", "b.dtype", "return_type">>,
                <<Data("a"), Data("b"), Cast("out"), N("size")>>,
                <<ll_void_p, ll_void_p, ll_void_p, ll_int64>>),
       Return(Load("out")) >>

dot_2_mm ==
    << Let("a", Arg(1)), Let("b", Arg(2)),
       Unpack("a", <<"m", "n">>), Unpack("b", <<"_n", "k">>),
       CompileInternal("dot_2_mm.make_res", <<Arg(1), Arg(2)>>, "out"),
       Let("outary", ArrayOf("out")),
       CallDpnp("dpnp_matmul", <<"a.dtype", "return_type">>,
                <<Data("a"), Data("b"), Data("outary"), N("m"), N("n"), N("k")>>,
                <<ll_void_p, ll_void_p, ll_void_p, ll_int64, ll_int64, ll_int64>>),
       Return(N("out")) >>

dot_2_mv ==
    << Let("a", Arg(1)), Let("b", Arg(2)),
       Unpack("a", <<"m", "n">>), Unpack("b", <<"_n">>),
       Let("k", Const(1)),
       CompileInternal("dot_2_mv.make_res", <<Arg(1), Arg(2)>>, "out"),
       Let("outary", ArrayOf("out")),
       CallDpnp("dpnp_matmul", <<"a.dtype", "return_type">>,
                <<Data("a"), Data("b"), Data("outary"), N("m"), N("n"), N("k")>>,
                <<ll_void_p, ll_void_p, ll_void_p, ll_int64, ll_int64, ll_int64>>),
       Return(N("out")) >>

dot_2_vm ==
    << Let("a", Arg(1)), Let("b", Arg(2)),
       Unpack("a", <<"m">>), Unpack("b", <<"n", "k">>),
       Let("m", Const(1)),
       CompileInternal("dot_2_vm.make_res", <<Arg(1), Arg(2)>>, "out"),
       Let("outary", ArrayOf("out")),
       CallDpnp("dpnp_matmul", <<"a.dtype", "return_type">>,
                <<Data("a"), Data("b"), Data("outary"), N("m"), N("n"), N("k")>>,
                <<ll_void_p, ll_void_p, ll_void_p, ll_int64, ll_int64>>),
       Return(N("out")) >>

\* the with block of dot_dppl: the branch taken for the rank pair nd, then
\* the part of make_contiguous after its yield; <<>> stands for "assert 0"
dot_dppl_body(nd) ==
    CASE nd = <<2, 2>> -> dot_2_mm \o <<ExitMakeContiguous>>
      [] nd = <<2, 1>> -> dot_2_mv \o <<ExitMakeContiguous>>
      [] nd = <<1, 2>> -> dot_2_vm \o <<ExitMakeContiguous>>
      [] nd = <<1, 1>> -> dot_2_vv \o <<ExitMakeContiguous>>
      [] OTHER -> <<>>

\* dot_dppl entering the with block before the availability check
dot_dppl_late_check == << WithMakeContiguous, EnsureDpnp("dot"), Dispatch >>

dot_dppl == << EnsureDpnp("dot"), WithMakeContiguous, Dispatch >>

\* matmul_dppl with the queue fetched on entry of the with block
matmul_dppl_queue ==
    << EnsureDpnp("matmul"), WithMakeContiguous, NdimsCheck,
       GetSyclQueue("sycl_queue"),
       Let("a", Arg(1)), Let("b", Arg(2)),
       Unpack("a", <<"m", "n">>), Unpack("b", <<"_n", "k">>),
       TotalSize("total_size_a", "aty", "a"),
       AllocateUsm("a_usm", N("total_size_a"), "sycl_queue"),
       CopyUsm(Data("a"), N("a_usm"), N("total_size_a"), "sycl_queue"),
       TotalSize("total_size_b", "bty", "b"),
       AllocateUsm("b_usm", N("total_size_b"), "sycl_queue"),
       CopyUsm(Data("b"), N("b_usm"), N("total_size_b"), "sycl_queue"),
       CompileInternal("matmul_dppl.make_res", <<Arg(1), Arg(2)>>, "out"),
       Let("outary", ArrayOf("out")),
       TotalSize("total_size_b", "bty", "b"),
       AllocateUsm("b_usm", N("total_size_b"), "sycl_queue"),
       CopyUsm(Data("b"), N("b_usm"), N("total_size_b"), "sycl_queue"),
       CallDpnp("dpnp_matmul", <<"a.dtype", "return_type">>,
                <<Data("a"), Data("b"), Data("outary"), N("m"), N("n"), N("k")>>,
                <<ll_void_p, ll_void_p, ll_void_p, ll_int64, ll_int64, ll_int64>>),
       Return(N("out")),
       ExitMakeContiguous >>

matmul_dppl ==
    << EnsureDpnp("matmul"), WithMakeContiguous, NdimsCheck,
       Let("a", Arg(1)), Let("b", Arg(2)),
       Unpack("a", <<"m", "n">>), Unpack("b", <<"_n", "k">>),
       TotalSize("total_size_a", "aty", "a"),
       AllocateUsm("a_usm", N("total_size_a"), "sycl_queue"),
       CopyUsm(Data("a"), N("a_usm"), N("total_size_a"), "sycl_queue"),
       TotalSize("total_size_b", "bty", "b"),
       AllocateUsm("b_usm", N("total_size_b"), "sycl_queue"),
       CopyUsm(Data("b"), N("b_usm"), N("total_size_b"), "sycl_queue"),
       CompileInternal("matmul_dppl.make_res", <<Arg(1), Arg(2)>>, "out"),
       Let("outary", ArrayOf("out")),
       TotalSize("total_size_b", "bty", "b"),
       AllocateUsm("b_usm", N("total_size_b"), "sycl_queue"),
       CopyUsm(Data("b"), N("b_usm"), N("total_size_b"), "sycl_queue"),
       CallDpnp("dpnp_matmul", <<"a.dtype", "return_type">>,
                <<Data("a"), Data("b"), Data("outary"), N("m"), N("n"), N("k")>>,
                <<ll_void_p, ll_void_p, ll_void_p, ll_int64, ll_int64, ll_int64>>),
       Return(N("out")),
       ExitMakeContiguous >>

\* common_sum_prod_impl without the free of the result buffer
common_sum_prod_impl_no_free(fn_type) ==
    << CompileInternal("array_size_checker", <<Arg(1)>>, ""),
       GetSyclQueue("sycl_queue"),
       Let("a", Arg(1)),
       Let("size", Nitems("a")),
       TotalSize("total_size_a", "aty.dtype", "a"),
       AllocateUsm("a_usm", N("total_size_a"), "sycl_queue"),
       CopyUsm(Data("a"), N("a_usm"), N("total_size_a"), "sycl_queue"),
       Let("out", Alloca("out")),
       Store(Const(0), "out"),
       AllocateUsm("out_usm", SizeOf("aty.dtype"), "sycl_queue"),
       CallDpnp(fn_type, <<"a.dtype", "NONE">>,
                <<N("a_usm"), N("out_usm"), N("size")>>,
                <<ll_void_p, ll_void_p, ll_int64>>),
       CopyUsm(N("out_usm"), N("out"), SizeOf("aty.dtype"), "sycl_queue"),
       FreeUsm(N("a_usm"), "sycl_queue"),
       Return(Load("out")) >>

\* common_sum_prod_impl freeing the buffers before the result is copied out
common_sum_prod_impl_free_first(fn_type) ==
    << CompileInternal("array_size_checker", <<Arg(1)>>, ""),
       GetSyclQueue("sycl_queue"),
       Let("a", Arg(1)),
       Let("size", Nitems("a")),
       TotalSize("total_size_a", "aty.dtype", "a"),
       AllocateUsm("a_usm", N("total_size_a"), "sycl_queue"),
       CopyUsm(Data("a"), N("a_usm"), N("total_size_a"), "sycl_queue"),
       Let("out", Alloca("out")),
       Store(Const(0), "out"),
       AllocateUsm("out_usm", SizeOf("aty.dtype"), "sycl_queue"),
       CallDpnp(fn_type, <<"a.dtype", "NONE">>,
                <<N("a_usm"), N("out_usm"), N("size")>>,
                <<ll_void_p, ll_void_p, ll_int64>>),
       FreeUsm(N("a_usm"), "sycl_queue"),
       FreeUsm(N("out_usm"), "sycl_queue"),
       CopyUsm(N("out_usm"), N("out"), SizeOf("aty.dtype"), "sycl_queue"),
       Return(Load("out")) >>

common_sum_prod_impl(fn_type) ==
    << CompileInternal("array_size_checker", <<Arg(1)>>, ""),
       GetSyclQueue("sycl_queue"),
       Let("a", Arg(1)),
       Let("size", Nitems("a")),
       TotalSize("total_size_a", "aty.dtype", "a"),
       AllocateUsm("a_usm", N("total_size_a"), "sycl_queue"),
       CopyUsm(Data("a"), N("a_usm"), N("total_size_a"), "sycl_queue"),
       Let("out", Alloca("out")),
       Store(Const(0), "out"),
       AllocateUsm("out_usm", SizeOf("aty.dtype"), "sycl_queue"),
       CallDpnp(fn_type, <<"a.dtype", "NONE">>,
                <<N("a_usm"), N("out_usm"), N("size")>>,
                <<ll_void_p, ll_void_p, ll_int64>>),
       CopyUsm(N("out_usm"), N("out"), SizeOf("aty.dtype"), "sycl_queue"),
       FreeUsm(N("a_usm"), "sycl_queue"),
       FreeUsm(N("out_usm"), "sycl_queue"),
       Return(Load("out")) >>

array_sum == <<EnsureDpnp("sum")>> \o common_sum_prod_impl("dpnp_sum")
array_prod == <<EnsureDpnp("prod")>> \o common_sum_prod_impl("dpnp_prod")

\* common_argmax_argmin_impl fetching the queue before the size check
common_argmax_argmin_impl_queue_first(fn_type) ==
    << GetSyclQueue("sycl_queue"),
       CompileInternal("array_size_checker", <<Arg(1)>>, ""),
       Let("a", Arg(1)),
       Let("size", Nitems("a")),
       TotalSize("total_size_a", "aty.dtype", "a"),
       AllocateUsm("a_usm", N("total_size_a"), "sycl_queue"),
       CopyUsm(Data("a"), N("a_usm"), N("total_size_a"), "sycl_queue"),
       Let("out", Alloca("out")),
       Store(Const(0), "out"),
       AllocateUsm("out_usm", SizeOf("return_type"), "sycl_queue"),
       CallDpnp(fn_type, <<"a.dtype", "return_type">>,
                <<N("a_usm"), N("out_usm"), N("size")>>,
                <<ll_void_p, ll_void_p, ll_int64>>),
       CopyUsm(N("out_usm"), N("out"), SizeOf("return_type"), "sycl_queue"),
       FreeUsm(N("a_usm"), "sycl_queue"),
       FreeUsm(N("out_usm"), "sycl_queue"),
       Return(Load("out")) >>

common_argmax_argmin_impl(fn_type) ==
    << CompileInternal("array_size_checker", <<Arg(1)>>, ""),
       GetSyclQueue("sycl_queue"),
       Let("a", Arg(1)),
       Let("size", Nitems("a")),
       TotalSize("total_size_a", "aty.dtype", "a"),
       AllocateUsm("a_usm", N("total_size_a"), "sycl_queue"),
       CopyUsm(Data("a"), N("a_usm"), N("total_size_a"), "sycl_queue"),
       Let("out", Alloca("out")),
       Store(Const(0), "out"),
       AllocateUsm("out_usm", SizeOf("return_type"), "sycl_queue"),
       CallDpnp(fn_type, <<"a.dtype", "return_type">>,
                <<N("a_usm"), N("out_usm"), N("size")>>,
                <<ll_void_p, ll_void_p, ll_int64>>),
       CopyUsm(N("out_usm"), N("out"), SizeOf("return_type"), "sycl_queue"),
       FreeUsm(N("a_usm"), "sycl_queue"),
       FreeUsm(N("out_usm"), "sycl_queue"),
       Return(Load("out")) >>

array_argmax ==
    <<EnsureDpnp("argmax")>> \o common_argmax_argmin_impl("dpnp_argmax")
\* array_argmin asking for a symbol of its own
array_argmin_own_symbol ==
    <<EnsureDpnp("argmin")>> \o common_argmax_argmin_impl("dpnp_argmin")

array_argmin ==
    <<EnsureDpnp("argmin")>> \o common_argmax_argmin_impl("dpnp_argmax")

array_argsort ==
    << EnsureDpnp("argsort"),
       Let("a", Arg(1)),
       Unpack("a", <<"size">>),
       CompileInternal("array_argsort.make_res", <<Arg(1)>>, "out"),
       Let("outary", ArrayOf("out")),
       CallDpnp("dpnp_argsort", <<"a.dtype", "return_type">>,
                <<Data("a"), Data("outary"), N("size")>>,
                <<ll_void_p, ll_void_p, ll_int64>>),
       Return(N("out")) >>

array_cov ==
    << EnsureDpnp("cov"),
       Let("a", Arg(1)),
       IfNdim(<< Unpack("a", <<"m", "n">>),
                 CompileInternal("array_cov.make_2D_res", <<N("m")>>, "out") >>,
              << Unpack("a", <<"m">>),
                 CompileInternal("array_cov.make_1D_res", <<N("m")>>, "out") >>),
       Let("outary", ArrayOf("out")),
       Let("nrows", Alloca("nrows")),
       Let("ncols", Alloca("ncols")),
       IfNdim(<< Store(N("m"), "nrows"), Store(N("n"), "ncols") >>,
              << Store(Const(1), "nrows"), Store(N("m"), "ncols") >>),
       CallDpnp("dpnp_cov", <<"a.dtype", "return_type">>,
                <<Data("a"), Data("outary"), N("nrows"), N("ncols")>>,
                <<ll_void_p, ll_void_p, ll_int64, ll_int64>>),
       Return(N("out")) >>

\* the lowering registered for each operation (lower_builtin)
Lowering(f) ==
    CASE f = "dot" -> dot_dppl
      [] f = "matmul" -> matmul_dppl
      [] f = "sum" -> array_sum
      [] f = "prod" -> array_prod
      [] f = "argmax" -> array_argmax
      [] f = "argmin" -> array_argmin
      [] f = "argsort" -> array_argsort
      [] f = "cov" -> array_cov

\* ------------------------------------------------------------- errors
ImportError == "ImportError: dpNP is needed"
RankPairRejected == "AssertionError"
NdimError == "ValueError: array dimension has to be 2"
UnpackError == "ValueError: wrong number of values to unpack"
NameError == "NameError"
TypeError == "TypeError: type of arg mismatch"
UnsupportedTypeCombination == "UnsupportedTypeCombination"
ShapeMismatch == "ValueError: incompatible array sizes"
EmptyInput == "ValueError: Passed Empty array"
OverflowError == "OverflowError: array size too large to fit in C int"

\* a parameter of every lowering function
PyParam == [p |-> "param", ll |-> "py"]
env0 == [x \in {"context", "builder"} |-> PyParam]

\* no device copy is under way
NoMemory == mem = <<>> /\ mem0 = <<>> /\ count = 0 /\ calls = <<>>

\* ocl.jit is not in use
NoJit ==
    /\ jargs = <<>> /\ jpc = "idle" /\ jres = <<>> /\ jerr = "none"
    /\ jlog = <<>> /\ made = <<>>

Init ==
    /\ fn \in Ops
    /\ sig0 \in Signatures(fn)
    /\ shape \in ShapesOf(fn, sig0)
    /\ hi \in [DOMAIN sig0.args -> HighLimbs(fn, sig0)]
    /\ \A i \in DOMAIN shape :
           (Long(fn, sig0) /\ hi[i] = 0) => shape[i][1] # 0
    /\ dpnp_ok \in BOOLEAN
    /\ sym_ok \in BOOLEAN
    /\ sym_ok => dpnp_ok
    /\ phase = "Lowering"
    /\ err = "none"
    /\ code = Lowering(fn)
    /\ env = env0
    /\ sig = sig0
    /\ args = [i \in DOMAIN sig0.args |-> [kind |-> "arg", i |-> i]]
    /\ copies = <<>>
    /\ ir = <<>>
    /\ rpc = 0
    /\ trace = <<>>
    /\ resolved = <<>>
    /\ NoMemory
    /\ NoJit

\* ------------------------------------------------ lowering (compile time)
At(k) == phase = "Lowering" /\ code # <<>> /\ Head(code).k = k
Bound(st) == StmtReads(st) \subseteq DOMAIN env

\* a Python exception leaves the lowering function; nothing more is emitted
Raised(kind) ==
    /\ phase' = "Errored"
    /\ err' = kind
    /\ code' = <<>>
    /\ UNCHANGED <<inputs, env, sig, args, copies, ir, rpc, trace>>

Raise(kind) == Raised(kind) /\ UNCHANGED resolved

\* the statement ran to its end: go on with the next one
Stepped(en, newir) ==
    /\ code' = Tail(code)
    /\ env' = en
    /\ ir' = newir
    /\ UNCHANGED <<inputs, phase, err, sig, args, copies, rpc, trace>>

Next1(en, newir) == Stepped(en, newir) /\ UNCHANGED resolved

\* a statement evaluates a name that no assignment has bound
name_error ==
    /\ phase = "Lowering" /\ code # <<>>
    /\ ~Bound(Head(code))
    /\ Raise(NameError)

ensure_dpnp ==
    /\ At("ensure_dpnp")
    /\ IF dpnp_ok THEN Next1(env, ir) ELSE Raise(ImportError)

Idx(n) == [i \in 1..n |-> i]

\* make_contiguous passing through the arrays of layout C only
make_contiguous_only_c ==
    /\ At("make_contiguous")
    /\ LET n == Len(sig.args)
           copied(i) == sig.args[i].layout # "C"
           newtys == [i \in 1..n |->
                        IF copied(i) THEN [sig.args[i] EXCEPT !.layout = "C"]
                                     ELSE sig.args[i]]
           newargs == [i \in 1..n |->
                        IF copied(i) THEN [kind |-> "copy", i |-> i]
                                     ELSE args[i]]
           which == SelectSeq(Idx(n), copied)
       IN  /\ ir' = ir \o [j \in DOMAIN which |->
                            [i |-> "array_copy", src |-> args[which[j]],
                             dst |-> newargs[which[j]]]]
           /\ copies' = [j \in DOMAIN which |-> newargs[which[j]]]
           /\ sig' = [sig EXCEPT !.args = newtys]
           /\ args' = newargs
    /\ code' = Tail(code)
    /\ UNCHANGED <<inputs, resolved, phase, err, env, rpc, trace>>

make_contiguous ==
    /\ At("make_contiguous")
    /\ LET n == Len(sig.args)
           copied(i) == ~IsContiguous(sig.args[i].layout)
           newtys == [i \in 1..n |->
                        IF copied(i) THEN [sig.args[i] EXCEPT !.layout = "C"]
                                     ELSE sig.args[i]]
           newargs == [i \in 1..n |->
                        IF copied(i) THEN [kind |-> "copy", i |-> i]
                                     ELSE args[i]]
           which == SelectSeq(Idx(n), copied)
       IN  /\ ir' = ir \o [j \in DOMAIN which |->
                            [i |-> "array_copy", src |-> args[which[j]],
                             dst |-> newargs[which[j]]]]
           /\ copies' = [j \in DOMAIN which |-> newargs[which[j]]]
           /\ sig' = [sig EXCEPT !.args = newtys]
           /\ args' = newargs
    /\ code' = Tail(code)
    /\ UNCHANGED <<inputs, resolved, phase, err, env, rpc, trace>>

\* the generator is resumed when the with block is left by a return
\* the exit of make_contiguous releasing every operand it yielded
make_contiguous_exit_every_operand ==
    /\ At("make_contiguous_exit")
    /\ ir' = ir \o [j \in DOMAIN args |-> [i |-> "decref", val |-> args[j]]]
    /\ code' = Tail(code)
    /\ phase' = "Compiled"
    /\ UNCHANGED <<inputs, resolved, err, env, sig, args, copies, rpc, trace>>

make_contiguous_exit ==
    /\ At("make_contiguous_exit")
    /\ ir' = ir \o [j \in DOMAIN copies |-> [i |-> "decref", val |-> copies[j]]]
    /\ code' = Tail(code)
    /\ phase' = "Compiled"
    /\ UNCHANGED <<inputs, resolved, err, env, sig, args, copies, rpc, trace>>

ndims(s) == [i \in DOMAIN s.args |-> s.args[i].ndim]

dispatch ==
    /\ At("dispatch")
    /\ LET body == dot_dppl_body(ndims(sig))
       IN  IF body = <<>>
           THEN Raise(RankPairRejected)
           ELSE /\ code' = body
                /\ env' = env0
                /\ UNCHANGED <<inputs, resolved, phase, err, sig, args, copies, ir, rpc,
                               trace>>

ndims_check ==
    /\ At("ndims_check")
    /\ IF ndims(sig) # <<2, 2>> THEN Raise(NdimError) ELSE Next1(env, ir)

if_ndim ==
    /\ At("if_ndim")
    /\ LET st == Head(code)
           branch == CASE sig.args[1].ndim = 2 -> st.then2
                       [] sig.args[1].ndim = 1 -> st.then1
                       [] OTHER -> <<>>
       IN  code' = branch \o Tail(code)
    /\ UNCHANGED <<inputs, resolved, phase, err, env, sig, args, copies, ir, rpc, trace>>

let ==
    /\ At("let") /\ Bound(Head(code))
    /\ LET st == Head(code)
       IN  Next1(Bind(env, st.binds, Eval(st.e, env, sig, args)), ir)

unpack_tuple ==
    /\ At("unpack_tuple") /\ Bound(Head(code))
    /\ LET st == Head(code)
           a == env[st.of]
           names == {st.binds[i] : i \in DOMAIN st.binds}
           pos(x) == CHOOSE i \in DOMAIN st.binds : st.binds[i] = x
       IN  IF a.ndim # Len(st.binds)
           THEN Raise(UnpackError)
           ELSE Next1([x \in DOMAIN env \cup names |->
                         IF x \in names
                         THEN [p |-> "dim", val |-> a.val, i |-> pos(x),
                               ll |-> ll_int64]
                         ELSE env[x]], ir)

EvalAll(es) == [j \in DOMAIN es |-> Eval(es[j], env, sig, args)]

compile_internal ==
    /\ At("compile_internal") /\ Bound(Head(code))
    /\ LET st == Head(code)
           instr == [i |-> "call_internal", f |-> st.f, args |-> EvalAll(st.fargs)]
       IN  Next1(IF st.binds = "" THEN env
                 ELSE Bind(env, st.binds, [p |-> "res", ll |-> "struct"]),
                 Append(ir, instr))

get_sycl_queue ==
    /\ At("get_sycl_queue")
    /\ LET st == Head(code)
           slot == [p |-> "slot", name |-> st.binds, ll |-> "i8**"]
       IN  Next1(Bind(env, st.binds, slot),
                 Append(ir, [i |-> "get_queue", slot |-> slot]))

get_total_size_of_array ==
    /\ At("get_total_size_of_array") /\ Bound(Head(code))
    /\ LET st == Head(code)
       IN  Next1(Bind(env, st.binds,
                      [p |-> "bytes", val |-> env[st.of].val,
                       per |-> get_abi_sizeof(st.ty, sig), ll |-> ll_int64]),
                 ir)

allocate_usm ==
    /\ At("allocate_usm") /\ Bound(Head(code))
    /\ LET st == Head(code)
           id == Len(ir) + 1
       IN  Next1(Bind(env, st.binds, [p |-> "usm", id |-> id, ll |-> ll_void_p]),
                 Append(ir, [i |-> "alloc", id |-> id,
                             size |-> Eval(st.size, env, sig, args),
                             queue |-> env[st.queue]]))

copy_usm ==
    /\ At("copy_usm") /\ Bound(Head(code))
    /\ LET st == Head(code)
       IN  Next1(env, Append(ir, [i |-> "copy",
                                  src |-> Eval(st.src, env, sig, args),
                                  dst |-> Eval(st.dst, env, sig, args),
                                  size |-> Eval(st.size, env, sig, args),
                                  queue |-> env[st.queue]]))

free_usm ==
    /\ At("free_usm") /\ Bound(Head(code))
    /\ LET st == Head(code)
       IN  Next1(env, Append(ir, [i |-> "free",
                                  buf |-> Eval(st.buf, env, sig, args),
                                  queue |-> env[st.queue]]))

store ==
    /\ At("store") /\ Bound(Head(code))
    /\ LET st == Head(code)
       IN  Next1(env, Append(ir, [i |-> "store",
                                  v |-> Eval(st.v, env, sig, args),
                                  slot |-> env[st.slot]]))

TypeName(w, s) ==
    CASE w = "a.dtype" -> s.args[1].dtype
      [] w = "b.dtype" -> s.args[2].dtype
      [] w = "return_type" -> s.return_type
      [] w = "NONE" -> "NONE"

\* builder.call checks each argument against the parameter type at the
\* same position of the function type, for the positions the type declares
ArgTypesMatch(params, param_tys) ==
    /\ Len(params) >= Len(param_tys)
    /\ \A j \in DOMAIN param_tys : params[j].ll = param_tys[j]

\* call_dpnp building the call whatever the lookup of the symbol gave
call_dpnp_unresolved ==
    /\ At("call_dpnp") /\ Bound(Head(code))
    /\ LET st == Head(code)
           params == EvalAll(st.params)
           type_names == [j \in DOMAIN st.type_names |->
                            TypeName(st.type_names[j], sig)]
       IN  /\ resolved' = Append(resolved, [fn_name |-> st.fn_name,
                                            type_names |-> type_names])
           /\ IF ~ArgTypesMatch(params, st.param_tys)
              THEN Raised(TypeError)
              ELSE Stepped(env, Append(ir, [i |-> "call", fn_name |-> st.fn_name,
                                            type_names |-> type_names,
                                            params |-> params,
                                            param_tys |-> st.param_tys,
                                            f_ptr |-> Len(resolved) + 1]))

\* call_dpnp looking the symbol up once for the address and once more for
\* the call
call_dpnp_resolving_twice ==
    /\ At("call_dpnp") /\ Bound(Head(code))
    /\ LET st == Head(code)
           params == EvalAll(st.params)
           type_names == [j \in DOMAIN st.type_names |->
                            TypeName(st.type_names[j], sig)]
           key == [fn_name |-> st.fn_name, type_names |-> type_names]
       IN  /\ resolved' = resolved \o <<key, key>>
           /\ IF ~sym_ok
              THEN Raised(UnsupportedTypeCombination)
              ELSE IF ~ArgTypesMatch(params, st.param_tys)
              THEN Raised(TypeError)
              ELSE Stepped(env, Append(ir, [i |-> "call", fn_name |-> st.fn_name,
                                            type_names |-> type_names,
                                            params |-> params,
                                            param_tys |-> st.param_tys,
                                            f_ptr |-> Len(resolved) + 2]))

\* f_ptr: the lookup whose address the call goes through
call_dpnp ==
    /\ At("call_dpnp") /\ Bound(Head(code))
    /\ LET st == Head(code)
           params == EvalAll(st.params)
           type_names == [j \in DOMAIN st.type_names |->
                            TypeName(st.type_names[j], sig)]
       IN  /\ resolved' = Append(resolved, [fn_name |-> st.fn_name,
                                            type_names |-> type_names])
           /\ IF ~sym_ok
              THEN Raised(UnsupportedTypeCombination)
              ELSE IF ~ArgTypesMatch(params, st.param_tys)
              THEN Raised(TypeError)
              ELSE Stepped(env, Append(ir, [i |-> "call", fn_name |-> st.fn_name,
                                            type_names |-> type_names,
                                            params |-> params,
                                            param_tys |-> st.param_tys,
                                            f_ptr |-> Len(resolved) + 1]))

return ==
    /\ At("return") /\ Bound(Head(code))
    /\ code' = Tail(code)
    /\ phase' = IF Tail(code) = <<>> THEN "Compiled" ELSE phase
    /\ UNCHANGED <<inputs, resolved, err, env, sig, args, copies, ir, rpc, trace>>

\* ------------------------------------------------- execution (run time)
\* the array an array value or data pointer refers to: operand i or the
\* contiguous copy of operand i, both of shape shape[i]
ShapeOfVal(v) == shape[v.val.i]

\* the integer an i64 value holds when the emitted code runs
RtInt(v) ==
    CASE v.p = "dim" -> ShapeOfVal(v)[v.i]
      [] v.p = "nitems" -> Prod(ShapeOfVal(v))
      [] v.p = "bytes" -> Prod(ShapeOfVal(v)) * v.per
      [] v.p = "const" -> v.v

RtParam(v) == IF v.ll = ll_int64 THEN [p |-> "int", v |-> RtInt(v), ll |-> v.ll]
              ELSE v

\* outcome of an internally compiled function
Raises(kind) == [raise |-> kind, alloc |-> FALSE, shape |-> <<>>]
Returns == [raise |-> "none", alloc |-> FALSE, shape |-> <<>>]
ReturnsArray(sh) == [raise |-> "none", alloc |-> TRUE, shape |-> sh]

\* the two-limb value an i64 holds: only the length of a long vector has
\* a high limb
RtWide(v) == <<IF v.p = "dim" /\ v.i = 1 THEN hi[v.val.i] ELSE 0, RtInt(v)>>
WideShapeOfVal(v) ==
    [k \in DOMAIN ShapeOfVal(v) |->
        <<IF k = 1 THEN hi[v.val.i] ELSE 0, ShapeOfVal(v)[k]>>]

check_args(a, b) ==
    LET m == a[1]
        n == b[1]
    IN  IF PyNe(PyInt(m), PyInt(n)) THEN Raises(ShapeMismatch) ELSE Returns

\* check_c_int.impl comparing with >=
check_c_int_impl_ge(n) ==
    IF ~Gt(<<0, _maxint>>, n) THEN Raises(OverflowError) ELSE Returns

check_c_int_impl(n) ==
    IF Gt(n, <<0, _maxint>>) THEN Raises(OverflowError) ELSE Returns

dot_2_mm_make_res(a, b) ==
    LET m == a[1]
        n == a[2]
        _n == b[1]
        k == b[2]
    IN  IF PyNe(PyInt(_n), PyInt(n)) THEN Raises(ShapeMismatch)
        ELSE ReturnsArray(<<m, k>>)

dot_2_mv_make_res(a, b) ==
    LET m == a[1]
        n == a[2]
        _n == b
    IN  IF PyNe(PyTuple(_n), PyInt(n)) THEN Raises(ShapeMismatch)
        ELSE ReturnsArray(<<m>>)

\* dot_2_vm.make_res sizing the result by the vector instead of by k
dot_2_vm_make_res_m(a, b) ==
    LET m == a[1]
        n == b[1]
        k == b[2]
    IN  IF PyNe(PyInt(m), PyInt(n)) THEN Raises(ShapeMismatch)
        ELSE ReturnsArray(<<m>>)

dot_2_vm_make_res(a, b) ==
    LET m == a[1]
        n == b[1]
        k == b[2]
    IN  IF PyNe(PyInt(m), PyInt(n)) THEN Raises(ShapeMismatch)
        ELSE ReturnsArray(<<k>>)

matmul_make_res(a, b) ==
    LET m == a[1]
        n == a[2]
        _n == b[1]
        k == b[2]
    IN  IF PyNe(PyInt(_n), PyInt(n)) THEN Raises(ShapeMismatch)
        ELSE ReturnsArray(<<m, k>>)

array_size_checker(arry) ==
    IF Prod(arry) = 0 THEN Raises(EmptyInput) ELSE Returns

\* array_argsort.make_res returning a one-element array
argsort_make_res_one(A) == ReturnsArray(<<1>>)

argsort_make_res(A) == ReturnsArray(<<Prod(A)>>)
make_1D_res(size) == ReturnsArray(<<1>>)
make_2D_res(size) == ReturnsArray(<<size, size>>)

Internal(f, a) ==
    CASE f = "dot_2_vv.check_args" ->
             check_args(WideShapeOfVal(a[1]), WideShapeOfVal(a[2]))
      [] f = "check_c_int.impl" -> check_c_int_impl(RtWide(a[1]))
      [] f = "dot_2_mm.make_res" ->
             dot_2_mm_make_res(ShapeOfVal(a[1]), ShapeOfVal(a[2]))
      [] f = "dot_2_mv.make_res" ->
             dot_2_mv_make_res(ShapeOfVal(a[1]), ShapeOfVal(a[2]))
      [] f = "dot_2_vm.make_res" ->
             dot_2_vm_make_res(ShapeOfVal(a[1]), ShapeOfVal(a[2]))
      [] f = "matmul_dppl.make_res" ->
             matmul_make_res(ShapeOfVal(a[1]), ShapeOfVal(a[2]))
      [] f = "array_size_checker" -> array_size_checker(ShapeOfVal(a[1]))
      [] f = "array_argsort.make_res" -> argsort_make_res(ShapeOfVal(a[1]))
      [] f = "array_cov.make_1D_res" -> make_1D_res(RtInt(a[1]))
      [] f = "array_cov.make_2D_res" -> make_2D_res(RtInt(a[1]))

\* the compiled function is called on the operand arrays
invoke ==
    /\ phase = "Compiled"
    /\ phase' = "Running"
    /\ rpc' = 1
    /\ UNCHANGED <<inputs, resolved, err, code, env, sig, args, copies, ir, trace>>

Exec(k) == phase = "Running" /\ rpc <= Len(ir) /\ ir[rpc].i = k

Event(ev) ==
    /\ trace' = Append(trace, ev)
    /\ rpc' = rpc + 1
    /\ UNCHANGED <<inputs, resolved, phase, err, code, env, sig, args, copies, ir>>

run_array_copy ==
    /\ Exec("array_copy")
    /\ Event([e |-> "array_copy", src |-> ir[rpc].src, dst |-> ir[rpc].dst])

\* call_internal: a raised exception is propagated to the caller at once
\* (the rest of the emitted code is skipped)
run_call_internal ==
    /\ Exec("call_internal")
    /\ LET r == Internal(ir[rpc].f, ir[rpc].args)
       IN  IF r.raise # "none"
           THEN /\ trace' = Append(trace, [e |-> "raise", f |-> ir[rpc].f,
                                           kind |-> r.raise])
                /\ phase' = "Errored"
                /\ err' = r.raise
                /\ UNCHANGED <<inputs, resolved, code, env, sig, args, copies, ir, rpc>>
           ELSE Event([e |-> "internal", f |-> ir[rpc].f, alloc |-> r.alloc,
                       shape |-> r.shape])

run_get_queue ==
    /\ Exec("get_queue")
    /\ Event([e |-> "get_queue", slot |-> ir[rpc].slot])

run_alloc ==
    /\ Exec("alloc")
    /\ Event([e |-> "alloc", id |-> ir[rpc].id, size |-> RtInt(ir[rpc].size),
              queue |-> ir[rpc].queue])

run_copy ==
    /\ Exec("copy")
    /\ Event([e |-> "copy", src |-> ir[rpc].src, dst |-> ir[rpc].dst,
              size |-> RtInt(ir[rpc].size), queue |-> ir[rpc].queue])

run_free ==
    /\ Exec("free")
    /\ Event([e |-> "free", buf |-> ir[rpc].buf, queue |-> ir[rpc].queue])

run_store ==
    /\ Exec("store")
    /\ Event([e |-> "store", v |-> RtInt(ir[rpc].v), slot |-> ir[rpc].slot])

run_call ==
    /\ Exec("call")
    /\ Event([e |-> "call", fn_name |-> ir[rpc].fn_name,
              type_names |-> ir[rpc].type_names,
              params |-> [j \in DOMAIN ir[rpc].params |-> RtParam(ir[rpc].params[j])],
              param_tys |-> ir[rpc].param_tys])

run_decref ==
    /\ Exec("decref")
    /\ Event([e |-> "decref", val |-> ir[rpc].val])

\* the emitted code ran to its end: the compiled function returns
finish ==
    /\ phase = "Running" /\ rpc > Len(ir)
    /\ phase' = "Done"
    /\ UNCHANGED <<inputs, resolved, err, code, env, sig, args, copies, ir, rpc, trace>>

Next ==
    \/ name_error
    \/ ensure_dpnp
    \/ make_contiguous
    \/ make_contiguous_exit
    \/ dispatch
    \/ ndims_check
    \/ if_ndim
    \/ let
    \/ unpack_tuple
    \/ compile_internal
    \/ get_sycl_queue
    \/ get_total_size_of_array
    \/ allocate_usm
    \/ copy_usm
    \/ free_usm
    \/ store
    \/ call_dpnp
    \/ return
    \/ invoke
    \/ run_array_copy
    \/ run_call_internal
    \/ run_get_queue
    \/ run_alloc
    \/ run_copy
    \/ run_free
    \/ run_store
    \/ run_call
    \/ run_decref
    \/ finish

Spec == Init /\ [][Next]_vars

\* ------------------------------------------------ device copies (run time)
\* the longest buffer
MaxLen == 2
Bytes == {0, 255}
Buffers == {"host", "device", "back"}

\* no call site is being lowered
NoLowering ==
    /\ fn = "dot" /\ sig0 = [args |-> <<>>, return_type |-> "float64"]
    /\ shape = <<>> /\ hi = <<>> /\ dpnp_ok = FALSE /\ sym_ok = FALSE
    /\ phase = "Idle" /\ err = "none" /\ code = <<>> /\ env = env0
    /\ sig = sig0 /\ args = <<>> /\ copies = <<>> /\ ir = <<>>
    /\ rpc = 0 /\ trace = <<>> /\ resolved = <<>>

\* the native copy of the device runtime, a memcpy on a queue: Count bytes
\* from Src to Dest
DPPLQueue_Memcpy(m, QRef, Dest, Src, Count) ==
    [m EXCEPT ![Dest] = [k \in DOMAIN m[Dest] |->
                            IF k <= Count THEN m[Src][k] ELSE m[Dest][k]]]

\* copy_usm handing the pointers over in the order of its own parameters
copy_usm_args_src_first(src, dst, size, sycl_queue) ==
    <<sycl_queue, src, dst, size>>

\* the arguments of the native call that copy_usm emits
copy_usm_args(src, dst, size, sycl_queue) == <<sycl_queue, dst, src, size>>

\* the call emitted by copy_usm(src, dst, size, sycl_queue) is executed
RunCopy(src, dst, size, sycl_queue) ==
    LET a == copy_usm_args(src, dst, size, sycl_queue)
    IN  /\ mem' = DPPLQueue_Memcpy(mem, a[1], a[2], a[3], a[4])
        /\ calls' = Append(calls, a)
        /\ UNCHANGED <<lowering, decorator, mem0, count>>

InitCopy ==
    /\ NoLowering
    /\ NoJit
    /\ \E n \in 1..MaxLen :
           /\ mem \in [Buffers -> [1..n -> Bytes]]
           /\ count \in 0..n
    /\ mem0 = mem
    /\ calls = <<>>

\* a host buffer is copied into a device buffer
copy_to_device ==
    /\ Len(calls) = 0
    /\ RunCopy("host", "device", count, "queue")

\* the device buffer is copied back into a host buffer
copy_to_host ==
    /\ Len(calls) = 1
    /\ RunCopy("device", "back", count, "queue")

NextCopy ==
    \/ copy_to_device
    \/ copy_to_host

SpecCopy == InitCopy /\ [][NextCopy]_vars

\* ------------------------------------------------------ ocl.jit decorator
\* the most applications of one decorator
MaxApply == 2

\* Python values handed to jit
PyNone == [kind |-> "None"]
PyType(n) == [kind |-> "type", name |-> n]
PyFunction(n) == [kind |-> "function", name |-> n]
PySignature(r, a) == [kind |-> "signature", restype |-> r, argtypes |-> a]
void == PyType("void")
Truthy(x) == x # PyNone
Funcs == {PyFunction("cu_mat_power"), PyFunction("cu_mat_power_binop")}
ArgTypeLists == {[kind |-> "list", v |-> <<"float64[:,:]", "int8", "float64[:,:]">>],
                 [kind |-> "list", v |-> <<"float64">>]}
\* return types of a signature: none (a tuple of argument types), void, or
\* a value type
ResTypes == {PyNone, void, PyType("float64")}

VoidReturnError == "TypeError: OCL kernel must have void return type."
ArgtypesTwice == "AssertionError"

is_signature(x) == x.kind = "signature"

convert_types(restype, argtypes) ==
    IF is_signature(restype)
    THEN IF argtypes # PyNone
         THEN [raise |-> ArgtypesTwice, restype |-> PyNone, argtypes |-> PyNone]
         ELSE [raise |-> "none", restype |-> restype.restype,
               argtypes |-> restype.argtypes]
    ELSE [raise |-> "none", restype |-> restype, argtypes |-> argtypes]

\* outcome of a call: the exception or the value, and the calls made into
\* the compiler on the way
JRaise(kind) == [raise |-> kind, value |-> PyNone, log |-> <<>>]
JReturn(v, l) == [raise |-> "none", value |-> v, log |-> l]

jitdevice(func) ==
    JReturn([kind |-> "device template", func |-> func],
            <<[c |-> "compile_device_template", func |-> func]>>)

\* the return type test of jit applied to device functions as well
kernel_returns_value_any(restype, device) == Truthy(restype) /\ restype # void

\* the return type test of jit
kernel_returns_value(restype, device) ==
    Truthy(restype) /\ ~device /\ restype # void

jit(func_or_sig, argtypes, device, bind) ==
    IF argtypes = PyNone /\ ~is_signature(func_or_sig)
    THEN IF func_or_sig = PyNone
         THEN JReturn([kind |-> "autojitwrapper", device |-> device,
                       bind |-> bind], <<>>)
         ELSE IF device
         THEN jitdevice(func_or_sig)
         ELSE JReturn([kind |-> "AutoJitOCLKernel", func |-> func_or_sig,
                       bind |-> bind],
                      <<[c |-> "AutoJitOCLKernel", func |-> func_or_sig]>>)
    ELSE LET ct == convert_types(func_or_sig, argtypes)
         IN  IF ct.raise # "none" THEN JRaise(ct.raise)
             ELSE IF kernel_returns_value(ct.restype, device)
             THEN JRaise(VoidReturnError)
             ELSE IF device
             THEN JReturn([kind |-> "device_jit", restype |-> ct.restype,
                           argtypes |-> ct.argtypes], <<>>)
             ELSE JReturn([kind |-> "kernel_jit", argtypes |-> ct.argtypes,
                           bind |-> bind], <<>>)

\* the kernel that compile_kernel returns for the n-th application
Kernel(func, argtypes, n) ==
    [kind |-> "kernel", func |-> func, argtypes |-> argtypes, n |-> n]

\* jit.kernel_jit binding whatever bind says
kernel_jit_always_bind(dec, func, n) ==
    LET kernel == Kernel(func, dec.argtypes, n)
    IN  JReturn(kernel,
                <<[c |-> "compile_kernel", func |-> func,
                   argtypes |-> dec.argtypes, kernel |-> kernel],
                  [c |-> "bind", kernel |-> kernel]>>)

\* jit.kernel_jit, closed over argtypes and bind
kernel_jit(dec, func, n) ==
    LET kernel == Kernel(func, dec.argtypes, n)
    IN  JReturn(kernel,
                <<[c |-> "compile_kernel", func |-> func,
                   argtypes |-> dec.argtypes, kernel |-> kernel]>>
                \o (IF dec.bind THEN <<[c |-> "bind", kernel |-> kernel]>>
                                ELSE <<>>))

\* jit.device_jit, closed over restype and argtypes
device_jit(dec, func) ==
    JReturn([kind |-> "device function", func |-> func,
             restype |-> dec.restype, argtypes |-> dec.argtypes],
            <<[c |-> "compile_device", func |-> func, restype |-> dec.restype,
               argtypes |-> dec.argtypes]>>)

\* the calls of jit: a function, a signature or nothing first, a type list
\* or nothing second; a bare return type comes with a type list
JitCalls ==
    {[func_or_sig |-> f, argtypes |-> a, device |-> d, bind |-> b] :
        f \in {PyNone} \cup Funcs \cup {PyType("float64"), void}
                \cup {PySignature(r, a2) : r \in ResTypes, a2 \in ArgTypeLists},
        a \in {PyNone} \cup ArgTypeLists, d \in BOOLEAN, b \in BOOLEAN}

InitJit ==
    /\ NoLowering
    /\ NoMemory
    /\ jargs \in JitCalls
    /\ jargs.func_or_sig.kind = "type" => jargs.argtypes # PyNone
    /\ jpc = "start"
    /\ jres = PyNone
    /\ jerr = "none"
    /\ jlog = <<>>
    /\ made = <<>>

\* jit(func_or_sig, argtypes, device=.., bind=..) is called
jit_call ==
    /\ jpc = "start"
    /\ LET o == jit(jargs.func_or_sig, jargs.argtypes, jargs.device, jargs.bind)
       IN  /\ jpc' = IF o.raise = "none" THEN "returned" ELSE "raised"
           /\ jerr' = o.raise
           /\ jres' = o.value
           /\ jlog' = jlog \o o.log
    /\ UNCHANGED <<lowering, memory, jargs, made>>

\* the decorator that jit returned is applied to a function
Apply(o) ==
    /\ IF o.raise = "none"
       THEN made' = Append(made, o.value) /\ UNCHANGED <<jpc, jerr>>
       ELSE jpc' = "raised" /\ jerr' = o.raise /\ UNCHANGED made
    /\ jlog' = jlog \o o.log
    /\ UNCHANGED <<lowering, memory, jargs, jres>>

Applicable(k) == jpc = "returned" /\ jres.kind = k /\ Len(made) < MaxApply

apply_autojitwrapper ==
    /\ Applicable("autojitwrapper")
    /\ \E func \in Funcs : Apply(jit(func, PyNone, jres.device, jres.bind))

apply_kernel_jit ==
    /\ Applicable("kernel_jit")
    /\ \E func \in Funcs : Apply(kernel_jit(jres, func, Len(made) + 1))

apply_device_jit ==
    /\ Applicable("device_jit")
    /\ \E func \in Funcs : Apply(device_jit(jres, func))

NextJit ==
    \/ jit_call
    \/ apply_autojitwrapper
    \/ apply_kernel_jit
    \/ apply_device_jit

SpecJit == InitJit /\ [][NextJit]_vars

\* ------------------------------------------------------------ properties
Events(k) == {i \in DOMAIN trace : trace[i].e = k}
Emitted(k) == {i \in DOMAIN ir : ir[i].i = k}
Finished == phase \in {"Done", "Errored"}
\* the result arrays allocated by the internally compiled make_res functions
ResultShapes == {trace[i].shape : i \in {j \in Events("internal") : trace[j].alloc}}
DeviceEvents == Events("get_queue") \cup Events("alloc") \cup Events("copy")
                    \cup Events("free") \cup Events("call")
\* the frees of the buffer allocated by event i
FreesOf(i) == {j \in Events("free") :
                 trace[j].buf.p = "usm" /\ trace[j].buf.id = trace[i].id}

\* C1: when a lowering's execution completes, every device buffer obtained
\* by allocate_usm has been released by exactly one free_usm, issued later
\* and on the same queue.
C1_AllocFreePaired ==
    phase = "Done" =>
        \A i \in Events("alloc") :
            /\ Cardinality(FreesOf(i)) = 1
            /\ \A j \in FreesOf(i) : j > i /\ trace[j].queue = trace[i].queue

C1_Witness ==
    /\ phase = "Done"
    /\ Cardinality(Events("alloc")) = 2
    /\ Cardinality(Events("free")) = 2

\* C2: every contiguous copy substituted by make_contiguous is released on
\* every exit path: the decref is emitted for every emitted copy, and it has
\* run for every copy made by the time the call ends, normally or by an
\* exception.
C2_CopiesReleasedOnEveryExit ==
    Finished =>
        /\ \A i \in Emitted("array_copy") :
               \E j \in Emitted("decref") : ir[j].val = ir[i].dst
        /\ \A i \in Events("array_copy") :
               \E j \in Events("decref") : trace[j].val = trace[i].dst

\* C3: every array whose data pointer is handed to a backend call or to a
\* device copy has a contiguous layout (C or F), in every lowering.
HostPointers(i) ==
    IF ir[i].i = "call"
    THEN {ir[i].params[j] : j \in {x \in DOMAIN ir[i].params :
                                      ir[i].params[x].p = "data"}}
    ELSE IF ir[i].i = "copy"
    THEN {v \in {ir[i].src, ir[i].dst} : v.p = "data"}
    ELSE {}

C3_OnlyContiguousPassed ==
    \A i \in DOMAIN ir : \A v \in HostPointers(i) : IsContiguous(v.layout)

\* the rank pairs dot_dppl has a branch for
DotRankPairs == {<<2, 2>>, <<2, 1>>, <<1, 2>>, <<1, 1>>}
\* the operand shapes of a binary call violate the rule of their rank pair
Incompatible ==
    LET a == shape[1]
        b == shape[2]
    IN  CASE ndims(sig0) = <<2, 2>> -> a[2] # b[1]
          [] ndims(sig0) = <<2, 1>> -> a[2] # b[1]
          [] ndims(sig0) = <<1, 2>> -> a[1] # b[1]
          [] ndims(sig0) = <<1, 1>> -> a[1] # b[1] \/ hi[1] # hi[2]
          [] OTHER -> FALSE
\* a supported binary call whose backend and symbol are there
BinaryCall ==
    /\ sym_ok
    /\ \/ fn = "dot" /\ ndims(sig0) \in DotRankPairs
       \/ fn = "matmul" /\ ndims(sig0) = <<2, 2>>

\* C4: in every binary operation the shape check precedes the allocation of
\* the result array, and a call on incompatible operand shapes ends in a
\* shape-mismatch failure with no result array allocated.
C4_ShapeCheckBeforeResult ==
    (BinaryCall /\ Incompatible) =>
        /\ ResultShapes = {}
        /\ phase # "Done"
        /\ phase = "Errored" => err = ShapeMismatch

\* C5: at the moment a matmul or dot call raises its shape-mismatch failure
\* no device buffer has been allocated and no device copy has been issued.
C5_NoDeviceWorkBeforeShapeFailure ==
    (fn \in BinaryOps /\ err = ShapeMismatch) =>
        Events("alloc") \cup Events("copy") = {}

C5_Witness ==
    /\ fn \in BinaryOps /\ err = ShapeMismatch
    /\ \E i \in Events("raise") : trace[i].kind = ShapeMismatch

\* C6: sum, prod, argmax and argmin on an operand of size 0 end in an
\* empty-input failure, and on that path the queue is not fetched, no device
\* buffer is allocated, no copy is issued and the backend is not invoked.
C6_EmptyInputNoDeviceWork ==
    (fn \in Reductions /\ Prod(shape[1]) = 0) =>
        /\ phase # "Done"
        /\ DeviceEvents = {}
        /\ (sym_ok /\ Finished) => err = EmptyInput

C6_Witness ==
    /\ fn \in Reductions /\ Prod(shape[1]) = 0
    /\ phase = "Errored" /\ err = EmptyInput
    /\ Emitted("get_queue") # {}

\* C7: matmul on rank-2 operands (m,n) and (n,k), backend and symbol
\* available, runs to completion without a failure and returns a result
\* array of shape (m,k).
C7_MatmulCompletes ==
    (fn = "matmul" /\ ndims(sig0) = <<2, 2>> /\ sym_ok /\ ~Incompatible) =>
        /\ phase # "Errored"
        /\ phase = "Done" => ResultShapes = {<<shape[1][1], shape[2][2]>>}

\* C8: dot dispatches on the rank pair: (2,2) on (m,n),(n',k) needs n = n'
\* and gives a result array (m,k); (1,2) on (m,),(m',k) needs m = m' and
\* gives (k,); (1,1) on (m,),(n,) needs m = n and gives a scalar (no result
\* array); a violated requirement is a shape-mismatch failure (the only
\* other failure is the size check of C16 on equal vectors too long for a
\* C int); a rank pair dot has no branch for is rejected while lowering.
C8_DotDispatch ==
    (fn = "dot" /\ sym_ok) =>
        LET nd == ndims(sig0)
            a == shape[1]
            b == shape[2]
        IN  /\ nd \in {<<2, 2>>, <<1, 2>>, <<1, 1>>} =>
                   /\ phase = "Done" => ~Incompatible
                   /\ phase = "Errored" =>
                          \/ Incompatible /\ err = ShapeMismatch
                          \/ /\ nd = <<1, 1>> /\ ~Incompatible /\ hi[1] > 0
                             /\ err = OverflowError
            /\ (nd = <<2, 2>> /\ phase = "Done") => ResultShapes = {<<a[1], b[2]>>}
            /\ (nd = <<1, 2>> /\ phase = "Done") => ResultShapes = {<<b[2]>>}
            /\ (nd = <<1, 1>> /\ phase = "Done") => ResultShapes = {}
            /\ nd \notin DotRankPairs =>
                   /\ phase \in {"Lowering", "Errored"}
                   /\ Emitted("call") = {}
                   /\ phase = "Errored" => err = RankPairRejected

C8_Witness ==
    /\ fn = "dot" /\ sym_ok /\ ndims(sig0) = <<1, 2>>
    /\ phase = "Done" /\ ResultShapes = {<<shape[2][2]>>}

\* C9: dot on a matrix (m,n) and a vector (n',): accepted with a result of
\* shape (m,) when n = n', a shape-mismatch failure when n differs from n'.
C9_DotMatrixVector ==
    (fn = "dot" /\ sym_ok /\ ndims(sig0) = <<2, 1>> /\ Finished) =>
        IF shape[1][2] = shape[2][1]
        THEN phase = "Done" /\ ResultShapes = {<<shape[1][1]>>}
        ELSE phase = "Errored" /\ err = ShapeMismatch

\* C10: cov on a rank-1 operand of length m allocates a 1-element result and
\* passes (nrows, ncols) = (1, m) to the backend; on a rank-2 operand (m,n)
\* it allocates an m-by-m result and passes (nrows, ncols) = (m, n).
C10_CovResultAndShape ==
    (fn = "cov" /\ sym_ok /\ sig0.args[1].ndim \in {1, 2} /\ Finished) =>
        /\ phase = "Done"
        /\ \A i \in Events("call") :
               LET ps == trace[i].params
               IN  /\ Len(ps) = 4
                   /\ ps[3].p = "int" /\ ps[4].p = "int"
                   /\ IF sig0.args[1].ndim = 1
                      THEN ps[3].v = 1 /\ ps[4].v = shape[1][1]
                      ELSE ps[3].v = shape[1][1] /\ ps[4].v = shape[1][2]
        /\ ResultShapes = IF sig0.args[1].ndim = 1 THEN {<<1>>}
                          ELSE {<<shape[1][1], shape[1][1]>>}

\* the failure the taxonomy names for an operand rank an operation does not
\* handle; no statement of the lowering raises it
UnsupportedRank == "UnsupportedRank"

\* C11: cov on an operand whose rank is neither 1 nor 2 ends in an
\* unsupported-rank failure, with no result array allocated and no backend
\* call emitted.
C11_CovUnsupportedRank ==
    (fn = "cov" /\ dpnp_ok /\ sig0.args[1].ndim \notin {1, 2} /\ Finished) =>
        /\ phase = "Errored" /\ err = UnsupportedRank
        /\ ResultShapes = {}
        /\ Emitted("call") = {}

\* C12: argsort on an accepted operand of total size m allocates one result
\* array of length m and passes m as the size scalar of the backend call.
C12_ArgsortLength ==
    (fn = "argsort" /\ phase \in {"Running", "Done"}) =>
        LET m == Prod(shape[1])
        IN  /\ \A i \in Events("internal") : trace[i].alloc => trace[i].shape = <<m>>
            /\ \A i \in Events("call") :
                   /\ Len(trace[i].params) = 3
                   /\ trace[i].params[3].p = "int" /\ trace[i].params[3].v = m
            /\ phase = "Done" => (ResultShapes = {<<m>>} /\ Events("call") # {})

C12_Witness ==
    /\ fn = "argsort" /\ phase = "Done" /\ Prod(shape[1]) = 2
    /\ ResultShapes = {<<2>>}

\* C13 (state part): with no backend symbol for the requested key no native
\* invocation is ever emitted or executed, no lowering completes, and the
\* failure of the lookup leaves nothing of the lowering to run.
C13_NoCallWithoutSymbol ==
    /\ ~sym_ok => /\ Emitted("call") = {} /\ Events("call") = {}
                  /\ phase \in {"Lowering", "Errored"}
    /\ err = UnsupportedTypeCombination =>
           /\ ~sym_ok /\ phase = "Errored" /\ code = <<>> /\ trace = <<>>

\* C13 (step part): the statement that requests a missing symbol signals the
\* unsupported-type-combination failure, and no step follows that failure.
C13_FailureStep ==
    /\ (At("call_dpnp") /\ ~sym_ok) =>
           (err' = UnsupportedTypeCombination /\ ir' = ir)
    /\ err = UnsupportedTypeCombination => UNCHANGED vars

\* C13: when the backend has no symbol for the requested (operation name,
\* type-name list), the lowering signals an unsupported-type-combination
\* failure, the native invocation is neither emitted nor executed, and no
\* step of the lowering runs after the failure.
C13_MissingSymbol == []C13_NoCallWithoutSymbol /\ [][C13_FailureStep]_vars

C13_Witness ==
    /\ ~sym_ok /\ dpnp_ok /\ err = UnsupportedTypeCombination
    /\ fn = "sum" /\ Emitted("alloc") # {}

\* C14 (state part): while the backend is unavailable nothing is emitted, no
\* copy is made, nothing runs, and the only way to end is the
\* backend-unavailable error; that error is raised for no other reason.
C14_NothingBeforeAvailability ==
    /\ ~dpnp_ok => /\ ir = <<>> /\ copies = <<>> /\ trace = <<>>
                   /\ env = env0 /\ sig = sig0
                   /\ phase \in {"Lowering", "Errored"}
                   /\ phase = "Errored" => err = ImportError
    /\ err = ImportError => (~dpnp_ok /\ phase = "Errored")

\* C14 (step part): the first step of every entry point is the availability
\* check: it either passes, emitting nothing, or raises the error.
C14_FirstStep ==
    (phase = "Lowering" /\ code = Lowering(fn)) =>
        IF dpnp_ok
        THEN code' = Tail(code) /\ ir' = ir /\ env' = env /\ err' = "none"
        ELSE err' = ImportError /\ phase' = "Errored" /\ ir' = <<>>

\* C14: every operation entry point checks backend availability as its
\* first step; when the backend cannot be loaded it fails with the
\* backend-unavailable error before any operand copy, result allocation,
\* device allocation or backend call is emitted.
C14_AvailabilityFirst ==
    []C14_NothingBeforeAvailability /\ [][C14_FirstStep]_vars

C14_Witness ==
    /\ ~dpnp_ok /\ err = ImportError /\ fn = "dot"
    /\ \E i \in DOMAIN sig0.args : ~IsContiguous(sig0.args[i].layout)

\* the byte size of operand array v: its element count times the size of
\* its element type
OperandBytes(v) == Prod(shape[v.i]) * ScalarSize(sig0.args[v.i].dtype)
\* size value v is an element count times the size of the element type
PerElement(v) == v.p = "bytes" => v.per = ScalarSize(sig0.args[v.val.i].dtype)

\* C15: every byte size the lowering computes for and passes to a device
\* allocation or device copy of an operand array of N elements equals N
\* times the size S of the array's element type, in matmul as in the
\* reductions.
C15_OperandByteSize ==
    /\ \A n \in DOMAIN env : PerElement(env[n])
    /\ \A i \in Emitted("alloc") \cup Emitted("copy") : PerElement(ir[i].size)
    /\ \A i \in Events("copy") :
           trace[i].src.p = "data" =>
               /\ trace[i].size = OperandBytes(trace[i].src.val)
               /\ \A j \in Events("alloc") :
                      (trace[i].dst.p = "usm" /\ trace[j].id = trace[i].dst.id)
                          => trace[j].size = OperandBytes(trace[i].src.val)

\* the length of operand i of a vector-vector dot, as two limbs
Length(i) == <<hi[i], shape[i][1]>>
\* the internally compiled functions that ran or raised, in order
Checks == SelectSeq(trace, LAMBDA ev : ev.e \in {"internal", "raise"})

\* C16: in the vector-vector dot lowering an operand length above 2^31 - 1
\* is rejected with the size-overflow failure before the backend call is
\* made and a length of at most 2^31 - 1 passes; the size check runs after
\* the shape-equality check and before the invocation.
C16_SizeCheck ==
    (Long(fn, sig0) /\ sym_ok) =>
        /\ \A i \in Events("raise") :
               trace[i].kind = OverflowError =>
                   /\ Events("call") = {}
                   /\ \E j \in Events("internal") :
                          j < i /\ trace[j].f = "dot_2_vv.check_args"
        /\ \A i \in Events("call") :
               \E j, k \in Events("internal") :
                   /\ j < k /\ k < i
                   /\ trace[j].f = "dot_2_vv.check_args"
                   /\ trace[k].f = "check_c_int.impl"
        /\ Finished =>
               IF Length(1) # Length(2)
               THEN err = ShapeMismatch /\ Len(Checks) = 1
               ELSE IF Gt(Length(1), <<0, _maxint>>)
               THEN err = OverflowError /\ Len(Checks) = 2
               ELSE phase = "Done" /\ Events("call") # {} /\ Len(Checks) = 2

C16_Witness ==
    /\ Long(fn, sig0) /\ err = OverflowError
    /\ Length(1) = <<1, 0>> /\ Length(2) = <<1, 0>>

\* what a call request says: symbol name, type names, parameter types and
\* parameter values
Request(c) == [fn_name |-> c.fn_name, type_names |-> c.type_names,
               param_tys |-> c.param_tys, params |-> c.params]
\* the backend call argmax issues for an operand of the signature and
\* shape of this call site
ArgmaxRequest(params) ==
    [fn_name |-> "dpnp_argmax",
     type_names |-> <<sig0.args[1].dtype, sig0.return_type>>,
     param_tys |-> <<ll_void_p, ll_void_p, ll_int64>>,
     params |-> params]

\* C18: the argmin lowering requests the same backend symbol name as the
\* argmax lowering, the argmax symbol, so that both issue the same backend
\* call request for the same operand.
C18_ArgminIsArgmax ==
    fn \in {"argmax", "argmin"} =>
        /\ \A i \in Emitted("call") :
               /\ ir[i].fn_name = "dpnp_argmax"
               /\ Request(ir[i]) = ArgmaxRequest(
                      <<[p |-> "usm", id |-> 3, ll |-> ll_void_p],
                        [p |-> "usm", id |-> 6, ll |-> ll_void_p],
                        [p |-> "nitems", val |-> [kind |-> "arg", i |-> 1],
                         ll |-> ll_int64]>>)
        /\ \A i \in Events("call") :
               Request(trace[i]) = ArgmaxRequest(
                      <<[p |-> "usm", id |-> 3, ll |-> ll_void_p],
                        [p |-> "usm", id |-> 6, ll |-> ll_void_p],
                        [p |-> "int", v |-> Prod(shape[1]), ll |-> ll_int64]>>)
        /\ phase = "Done" => Cardinality(Events("call")) = 1

C18_Witness ==
    /\ fn = "argmin" /\ phase = "Done"
    /\ \E i \in Events("call") : trace[i].fn_name = "dpnp_argmax"

\* the first n bytes of buffer b in memory m
Prefix(m, b, n) == [k \in 1..n |-> m[b][k]]
\* the bytes of buffer b in memory m after the first n
Rest(m, b, n) == [k \in 1..(Len(m[b]) - n) |-> m[b][n + k]]

\* C17: copy_usm(src, dst, size, queue) moves exactly size bytes from src to
\* dst on the given queue, so a host buffer copied into a device buffer and
\* from there into a host buffer of the same size, nothing modified in
\* between, comes back byte-identical.
C17_CopyRoundTrip ==
    /\ \A i \in DOMAIN calls : calls[i][1] = "queue" /\ calls[i][4] = count
    /\ Len(calls) >= 1 =>
           /\ Prefix(mem, "device", count) = Prefix(mem0, "host", count)
           /\ Rest(mem, "device", count) = Rest(mem0, "device", count)
           /\ mem["host"] = mem0["host"]
    /\ Len(calls) = 2 =>
           /\ Prefix(mem, "back", count) = Prefix(mem0, "host", count)
           /\ Rest(mem, "back", count) = Rest(mem0, "back", count)
           /\ count = Len(mem0["host"]) => mem["back"] = mem0["host"]

C17_Witness ==
    /\ Len(calls) = 2 /\ count = 2
    /\ mem0["host"] = <<0, 255>> /\ mem0["back"] = <<255, 0>>
    /\ mem0["device"] = <<255, 255>>
    /\ mem["back"] = <<0, 255>>

\* jit was handed a signature, or a list of argument types, not both
OneForm == is_signature(jargs.func_or_sig) = (jargs.argtypes = PyNone)
\* the return type that call declares
DeclaredReturn == IF is_signature(jargs.func_or_sig)
                  THEN jargs.func_or_sig.restype ELSE jargs.func_or_sig
LogOf(c) == {j \in DOMAIN jlog : jlog[j].c = c}

\* C19: ocl.jit given a signature (or argtypes) whose return type is neither
\* absent nor void raises TypeError and compiles nothing when device is
\* false; with device true it is accepted and yields a device-function
\* decorator.
C19_KernelReturnsVoid ==
    (jpc \in {"returned", "raised"} /\ OneForm
         /\ DeclaredReturn # PyNone /\ DeclaredReturn # void) =>
        IF ~jargs.device
        THEN /\ jpc = "raised" /\ jerr = VoidReturnError
             /\ jlog = <<>> /\ made = <<>>
        ELSE /\ jpc = "returned" /\ jerr = "none"
             /\ jres.kind = "device_jit"
             /\ \A i \in DOMAIN made : made[i].kind = "device function"
             /\ LogOf("compile_device") = DOMAIN jlog
             /\ Len(jlog) = Len(made)

C19_Witness ==
    /\ jpc = "raised" /\ jerr = VoidReturnError /\ ~jargs.device
    /\ is_signature(jargs.func_or_sig)
    /\ jargs.func_or_sig.restype = PyType("float64")

\* C20: ocl.jit called with argtypes and no function, device false, returns
\* a decorator; each application of it to a function compiles a kernel for
\* those argtypes and returns it, with kernel.bind() called exactly once,
\* after the compilation, when bind is true, and never when bind is false.
C20_DecoratorCompilesAndBinds ==
    (jpc # "start" /\ jargs.func_or_sig = PyNone /\ jargs.argtypes # PyNone
         /\ ~jargs.device) =>
        /\ jpc = "returned" /\ jerr = "none" /\ jres.kind = "kernel_jit"
        /\ LogOf("compile_kernel") \cup LogOf("bind") = DOMAIN jlog
        /\ Cardinality(LogOf("compile_kernel")) = Len(made)
        /\ \A i \in DOMAIN made :
               LET cs == {j \in LogOf("compile_kernel") : jlog[j].kernel = made[i]}
                   bs == {j \in LogOf("bind") : jlog[j].kernel = made[i]}
               IN  /\ made[i].kind = "kernel"
                   /\ made[i].argtypes = jargs.argtypes
                   /\ made[i].func \in Funcs
                   /\ Cardinality(cs) = 1
                   /\ \A j \in cs : /\ jlog[j].argtypes = jargs.argtypes
                                    /\ jlog[j].func = made[i].func
                   /\ Cardinality(bs) = IF jargs.bind THEN 1 ELSE 0
                   /\ \A c \in cs, b \in bs : b = c + 1

C20_Witness ==
    /\ jargs.func_or_sig = PyNone /\ jargs.argtypes # PyNone
    /\ ~jargs.device /\ jargs.bind
    /\ Len(made) = 2 /\ Len(jlog) = 4
    /\ jlog[2].c = "bind" /\ jlog[2].kernel = made[1]

\* the statements of kind k that the lowering has still to run
Stmts(k) == {i \in DOMAIN code : code[i].k = k}
\* every event of set A comes before every event of set B
Before(A, B) == \A i \in A, j \in B : i < j
\* the device copies of an operand into a device buffer, and out of one
CopiesIn == {i \in Events("copy") : trace[i].src.p = "data"}
CopiesOut == {i \in Events("copy") : trace[i].src.p = "usm"}

DeviceStmts == {"allocate_usm", "copy_usm", "free_usm"}
EmittedDeviceOps == Emitted("alloc") \cup Emitted("copy") \cup Emitted("free")

\* C22: a lowering that performs device operations obtains the current
\* queue exactly once, before its first device operation, and issues every
\* allocate, copy and free against that one queue value.
C22_OneQueue ==
    /\ Cardinality(Emitted("get_queue")) <= 1
    /\ (phase = "Lowering" /\ code # <<>> /\ Head(code).k \in DeviceStmts) =>
           Cardinality(Emitted("get_queue")) = 1
    /\ \A i \in EmittedDeviceOps :
           \E q \in Emitted("get_queue") : q < i /\ ir[i].queue = ir[q].slot
    /\ Cardinality(Events("get_queue")) <= 1
    /\ \A i \in Events("alloc") \cup Events("copy") \cup Events("free") :
           \E q \in Events("get_queue") : q < i /\ trace[i].queue = trace[q].slot

\* C23: a lowering that completes has looked up exactly one backend symbol
\* and emitted exactly one call, which goes through the address that
\* lookup gave for the name and type names of the call; the lookup is made
\* while lowering, before the call is emitted, and never at run time.
C23_OneResolutionOneCall ==
    /\ \A i \in Emitted("call") :
           /\ ir[i].f_ptr \in DOMAIN resolved
           /\ resolved[ir[i].f_ptr] = [fn_name |-> ir[i].fn_name,
                                       type_names |-> ir[i].type_names]
    /\ Cardinality(Emitted("call")) <= Len(resolved)
    /\ phase \in {"Compiled", "Running", "Done"} =>
           /\ Len(resolved) = 1
           /\ Cardinality(Emitted("call")) = 1
    /\ phase = "Done" => Cardinality(Events("call")) = 1

C23_Witness ==
    /\ phase = "Done" /\ fn = "dot" /\ Len(resolved) = 1
    /\ \E i \in Events("call") : trace[i].fn_name = "dpnp_matmul"

\* the parameter lists of the backend calls emitted so far, and of the call
\* the lowering is about to hand to call_dpnp
RequestedParams ==
    {ir[i].params : i \in Emitted("call")}
        \cup (IF At("call_dpnp") /\ Bound(Head(code))
              THEN {EvalAll(Head(code).params)} ELSE {})
\* the operand a pointer parameter points to: its data, or the device
\* buffer its data was copied to; 0 when it is no operand pointer
OperandOf(v) ==
    IF v.p = "data" /\ v.val.kind \in {"arg", "copy"} THEN v.val.i
    ELSE IF v.p = "usm" /\ \E c \in Emitted("copy") :
                               ir[c].dst = v /\ ir[c].src.p = "data"
    THEN ir[CHOOSE c \in Emitted("copy") :
                   ir[c].dst = v /\ ir[c].src.p = "data"].src.val.i
    ELSE 0
\* a pointer to the result: the data of the result array, the result slot,
\* or a device buffer holding no operand
IsResultPointer(v) ==
    /\ v.ll = ll_void_p
    /\ \/ v.p = "data" /\ v.val.kind = "res"
       \/ v.p = "slot"
       \/ v.p = "usm" /\ OperandOf(v) = 0
\* an integer passed by value: what it is
Scalar(v) ==
    IF v.ll # ll_int64 THEN <<"not an integer">>
    ELSE CASE v.p = "dim" -> <<"dim", v.val.i, v.i>>
           [] v.p = "nitems" -> <<"nitems", v.val.i>>
           [] v.p = "const" -> <<"const", v.v>>
           [] OTHER -> <<"other">>
\* the size or shape scalars of the operation of this call site
ScalarsWanted ==
    LET nd == ndims(sig0)
    IN  CASE fn \in Reductions -> << <<"nitems", 1>> >>
          [] fn = "argsort" -> << <<"dim", 1, 1>> >>
          [] fn = "cov" /\ nd = <<2>> -> << <<"dim", 1, 1>>, <<"dim", 1, 2>> >>
          [] fn = "cov" /\ nd # <<2>> -> << <<"const", 1>>, <<"dim", 1, 1>> >>
          [] fn = "dot" /\ nd = <<1, 1>> -> << <<"dim", 1, 1>> >>
          [] fn = "dot" /\ nd = <<2, 1>> ->
                 << <<"dim", 1, 1>>, <<"dim", 1, 2>>, <<"const", 1>> >>
          [] fn = "dot" /\ nd = <<1, 2>> ->
                 << <<"const", 1>>, <<"dim", 2, 1>>, <<"dim", 2, 2>> >>
          [] OTHER -> << <<"dim", 1, 1>>, <<"dim", 1, 2>>, <<"dim", 2, 2>> >>

\* C24: the parameters of every backend call are, in this order, the left
\* operand pointer, the right operand pointer (binary operations only), the
\* result pointer, then the size or shape scalars of the operation, each
\* scalar passed by value as an integer.
C24_ParameterOrder ==
    \A ps \in RequestedParams :
        LET np == Len(sig0.args)
        IN  /\ Len(ps) = np + 1 + Len(ScalarsWanted)
            /\ \A j \in 1..np : ps[j].ll = ll_void_p /\ OperandOf(ps[j]) = j
            /\ IsResultPointer(ps[np + 1])
            /\ \A j \in DOMAIN ScalarsWanted :
                   Scalar(ps[np + 1 + j]) = ScalarsWanted[j]

\* C25 (step): what make_contiguous yields for the signature and operands
\* it is entered with
C25_Yield ==
    At("make_contiguous") =>
        /\ sig'.return_type = sig.return_type
        /\ Len(sig'.args) = Len(sig.args) /\ Len(args') = Len(args)
        /\ \A i \in DOMAIN sig.args :
               IF sig.args[i].layout \in {"C", "F"}
               THEN /\ sig'.args[i] = sig.args[i] /\ args'[i] = args[i]
                    /\ \A c \in DOMAIN copies' : copies'[c] # args'[i]
               ELSE /\ sig'.args[i] = [sig.args[i] EXCEPT !.layout = "C"]
                    /\ args'[i] \notin {args[j] : j \in DOMAIN args}
                    /\ \A j \in DOMAIN args' : j # i => args'[j] # args'[i]
                    /\ \E c \in DOMAIN ir' :
                           /\ c > Len(ir) /\ ir'[c].i = "array_copy"
                           /\ ir'[c].src = args[i] /\ ir'[c].dst = args'[i]

\* C25: make_contiguous yields a signature with the same return type and
\* the same number and order of operands; an array operand of layout C or F
\* is passed through unchanged, type and value, and an array operand of any
\* other layout is replaced by a fresh copy whose type differs from the
\* original in its layout only, which is C.
C25_MakeContiguous == [][C25_Yield]_vars

C25_Witness ==
    /\ fn = "dot" /\ Len(copies) = 1
    /\ sig0.args[1].layout = "A" /\ sig0.args[2].layout = "F"
    /\ sig.args[1] = [sig0.args[1] EXCEPT !.layout = "C"]
    /\ sig.args[2] = sig0.args[2]
    /\ args[1].kind = "copy" /\ args[2].kind = "arg"

Params(ps) == {ps[i] : i \in DOMAIN ps}

C27_ResultBufferSize ==
    fn \in Reductions =>
        /\ \A d \in Emitted("call") :
               ir[ir[d].params[2].id].size.v = ScalarSize(sig.return_type)
        /\ \A c \in Emitted("copy") :
               ir[c].src.p = "usm" =>
                   /\ ir[ir[c].src.id].size.v = ScalarSize(sig.return_type)
                   /\ ir[c].size.v = ScalarSize(sig.return_type)

\* C28: the backend call is given as many parameters as its list of
\* declared parameter types has entries, in the call emitted and in the
\* call a lowering is about to make, for the four rank pairs of dot,
\* matmul, the reductions, argsort and cov.
C28_ParameterCount ==
    /\ \A d \in Emitted("call") : Len(ir[d].params) = Len(ir[d].param_tys)
    /\ At("call_dpnp") => Len(Head(code).params) = Len(Head(code).param_tys)

\* the kind of an emitted instruction or of an executed event
Kind(r) == IF "i" \in DOMAIN r THEN r.i ELSE r.e
IsBuf(v, id) == v.p = "usm" /\ v.id = id
\* instruction r uses device buffer id: as the source or the destination of
\* a copy, or as an argument of the backend call
Touches(r, id) ==
    \/ Kind(r) = "copy" /\ (IsBuf(r.src, id) \/ IsBuf(r.dst, id))
    \/ Kind(r) = "call" /\ \E k \in DOMAIN r.params : IsBuf(r.params[k], id)
AllocsOf(s, id) == {i \in DOMAIN s : Kind(s[i]) = "alloc" /\ s[i].id = id}
FreesIn(s, id) == {f \in DOMAIN s : Kind(s[f]) = "free" /\ IsBuf(s[f].buf, id)}
\* a result buffer: handed to the backend call with nothing copied into it
ResultBuffer(s, id) ==
    /\ \E d \in DOMAIN s : Kind(s[d]) = "call" /\ Touches(s[d], id)
    /\ \A c \in DOMAIN s : Kind(s[c]) = "copy" => ~IsBuf(s[c].dst, id)
\* (a buffer is named by the place of its allocation in the emitted code)
BufferLifetimes(s) ==
    \A id \in DOMAIN ir :
        /\ \A j \in DOMAIN s :
               Touches(s[j], id) =>
                   /\ \E i \in AllocsOf(s, id) : i < j
                   /\ \A f \in FreesIn(s, id) : j < f
        /\ \A f \in FreesIn(s, id) :
               /\ \E i \in AllocsOf(s, id) : i < f
               /\ ResultBuffer(s, id) =>
                      \E c \in DOMAIN s :
                          c < f /\ Kind(s[c]) = "copy" /\ IsBuf(s[c].src, id)

\* C29: a device buffer is used, as the source or destination of a copy or
\* as an argument of the backend call, only after it was allocated and
\* before it is freed; the result is copied out of the result buffer before
\* that buffer is freed; no buffer is touched after its free. This is so in
\* the order the code is emitted and in the order it runs.
C29_BufferLifetime == BufferLifetimes(ir) /\ BufferLifetimes(trace)

C29_Witness ==
    /\ phase = "Done" /\ fn = "prod"
    /\ Cardinality(Events("alloc")) = 2 /\ Cardinality(Events("free")) = 2
    /\ \E d \in Events("call"), c \in CopiesOut, f \in Events("free") :
           /\ d < c /\ c < f
           /\ trace[c].src = trace[f].buf
           /\ trace[c].src = trace[d].params[2]

\* the releases of value v, emitted and executed
DecrefsEmitted(v) == {j \in Emitted("decref") : ir[j].val = v}
DecrefsRun(v) == {j \in Events("decref") : trace[j].val = v}

\* C30: when a lowering wrapped in make_contiguous completes normally, the
\* release has been applied exactly once to every substituted copy and
\* never to an operand passed through or to an operand of the caller; the
\* releases are emitted, and run, after the backend call of the body.
C30_ReleaseOncePerCopy ==
    (phase = "Done" /\ fn \in BinaryOps) =>
        /\ \A i \in DOMAIN args :
               /\ IF args[i].kind = "copy"
                  THEN /\ Cardinality(DecrefsEmitted(args[i])) = 1
                       /\ Cardinality(DecrefsRun(args[i])) = 1
                  ELSE /\ DecrefsEmitted(args[i]) = {}
                       /\ DecrefsRun(args[i]) = {}
               /\ DecrefsEmitted([kind |-> "arg", i |-> i]) = {}
               /\ DecrefsRun([kind |-> "arg", i |-> i]) = {}
        /\ Cardinality(Emitted("decref")) = Len(copies)
        /\ Cardinality(Events("decref")) = Len(copies)
        /\ Before(Emitted("call"), Emitted("decref"))
        /\ Before(Events("call"), Events("decref"))

C30_Witness ==
    /\ phase = "Done" /\ fn = "dot"
    /\ args[1].kind = "copy" /\ args[2].kind = "arg"
    /\ Events("call") # {}
    /\ Cardinality(DecrefsRun(args[1])) = 1

====
